---- MODULE Spec2Model ----
(***************************************************************************)
(* Model of standardize_and_clean (streamlit_app.py), the table            *)
(* standardizer of the climate dashboard, together with the module-level   *)
(* LOCAL_TODAY it reads.                                                   *)
(*                                                                         *)
(* A DataFrame is a record [cols, rows]: cols is the ordered sequence of   *)
(* column headers [name, dtype], rows the ordered sequence of              *)
(* [idx, cells], idx being the row's index label and cells its values in   *)
(* column order.  Text (column names, string cells) is a sequence of       *)
(* one-character strings, so that lower(), substring tests and parsing     *)
(* are computed.  A cell is one of                                         *)
(*    [k |-> "num", m |-> mantissa, e |-> decimals]   the number m / 10^e  *)
(*    [k |-> "nan"]                                   a missing number     *)
(*    [k |-> "str", s |-> text]                       a string             *)
(*    [k |-> "ts", day |-> d, ns |-> n]               a timestamp: day d   *)
(*                       (days since 1970-01-01) and n nanoseconds into it *)
(*    [k |-> "nat"]                                   a missing timestamp  *)
(***************************************************************************)
EXTENDS Integers, Sequences, FiniteSets, TLC

VARIABLES
    clock,        \* the system date (days since 1970-01-01)
    LOCAL_TODAY,  \* module global, read from the clock when the script runs
    raw,          \* the caller's DataFrame
    argsortTies,  \* how the installed sort routine orders rows with equal keys
    result        \* what the last call of standardize_and_clean produced

vars == <<clock, LOCAL_TODAY, raw, argsortTies, result>>

----------------------------------------------------------------------------
(* Bounds *)

MaxRows == 2
MaxCols == 2
MaxCells == 4
MaxTicks == 1

----------------------------------------------------------------------------
(* Text *)

UpperCase == <<"A","B","C","D","E","F","G","H","I","J","K","L","M",
               "N","O","P","Q","R","S","T","U","V","W","X","Y","Z">>
LowerCase == <<"a","b","c","d","e","f","g","h","i","j","k","l","m",
               "n","o","p","q","r","s","t","u","v","w","x","y","z">>

LowerChar(ch) ==
    IF \E i \in 1..26 : UpperCase[i] = ch
    THEN LowerCase[CHOOSE i \in 1..26 : UpperCase[i] = ch]
    ELSE ch

Lower(s) == [i \in 1..Len(s) |-> LowerChar(s[i])]

Contains(s, sub) ==
    \E i \in 1..(Len(s) - Len(sub) + 1) : SubSeq(s, i, i + Len(sub) - 1) = sub

Digits == <<"0","1","2","3","4","5","6","7","8","9">>

IsDigit(ch) == \E i \in 1..10 : Digits[i] = ch

DigitVal(ch) == (CHOOSE i \in 1..10 : Digits[i] = ch) - 1

AllDigits(s) == \A i \in 1..Len(s) : IsDigit(s[i])

RECURSIVE DigitsVal(_)
DigitsVal(s) ==
    IF s = <<>> THEN 0
    ELSE 10 * DigitsVal(SubSeq(s, 1, Len(s) - 1)) + DigitVal(s[Len(s)])

RECURSIVE NatToStr(_)
NatToStr(n) ==
    IF n < 10 THEN <<Digits[n + 1]>>
    ELSE NatToStr(n \div 10) \o <<Digits[(n % 10) + 1]>>

IntToStr(n) == IF n < 0 THEN <<"-">> \o NatToStr(-n) ELSE NatToStr(n)

RECURSIVE StripTrailingZeros(_)
StripTrailingZeros(s) ==
    IF s # <<>> /\ s[Len(s)] = "0"
    THEN StripTrailingZeros(SubSeq(s, 1, Len(s) - 1))
    ELSE s

----------------------------------------------------------------------------
(* Cells *)

NaN == [k |-> "nan"]
NaT == [k |-> "nat"]
Num(n) == [k |-> "num", m |-> n, e |-> 0]
Txt(s) == [k |-> "str", s |-> s]
Ts(d, n) == [k |-> "ts", day |-> d, ns |-> n]

(* Days since 1970-01-01 of the civil date y-m-d (proleptic Gregorian). *)
DaysFromCivil(y, m, d) ==
    LET yy  == IF m <= 2 THEN y - 1 ELSE y
        era == yy \div 400
        yoe == yy - era * 400
        mp  == IF m > 2 THEN m - 3 ELSE m + 9
        doy == (153 * mp + 2) \div 5 + d - 1
        doe == yoe * 365 + yoe \div 4 - yoe \div 100 + doy
    IN  era * 146097 + doe - 719468

IsLeap(y) == (y % 4 = 0 /\ y % 100 # 0) \/ y % 400 = 0

DaysInMonth(y, m) ==
    IF m = 2 THEN (IF IsLeap(y) THEN 29 ELSE 28)
    ELSE IF m \in {4, 6, 9, 11} THEN 30 ELSE 31

(* A string read as a date: the ISO form YYYY-MM-DD of a real calendar day *)
(* gives its timestamp at midnight, any other string of the model's        *)
(* universe is not a date (NaT).                                           *)
ParseDate(s) ==
    IF /\ Len(s) = 10
       /\ s[5] = "-" /\ s[8] = "-"
       /\ AllDigits(SubSeq(s, 1, 4))
       /\ AllDigits(SubSeq(s, 6, 7))
       /\ AllDigits(SubSeq(s, 9, 10))
    THEN LET y == DigitsVal(SubSeq(s, 1, 4))
             m == DigitsVal(SubSeq(s, 6, 7))
             d == DigitsVal(SubSeq(s, 9, 10))
         IN  IF y >= 1 /\ m \in 1..12 /\ d \in 1..DaysInMonth(y, m)
             THEN Ts(DaysFromCivil(y, m, d), 0)
             ELSE NaT
    ELSE NaT

(* A string read as a number: optional sign, digits, optional decimal      *)
(* point and digits.  The value is m / 10^e with no trailing zero decimals, *)
(* so "9.0" and "9" give the same number.                                  *)
ParseNumber(s) ==
    LET signed == s # <<>> /\ s[1] \in {"-", "+"}
        body   == IF signed THEN Tail(s) ELSE s
        dots   == {i \in 1..Len(body) : body[i] = "."}
        dot    == IF dots = {} THEN Len(body) + 1 ELSE CHOOSE i \in dots : TRUE
        ip     == SubSeq(body, 1, dot - 1)
        fp     == StripTrailingZeros(SubSeq(body, dot + 1, Len(body)))
        mag    == DigitsVal(ip \o fp)
    IN  IF /\ Cardinality(dots) <= 1
           /\ AllDigits(ip)
           /\ AllDigits(SubSeq(body, dot + 1, Len(body)))
           /\ Len(ip) + Len(SubSeq(body, dot + 1, Len(body))) >= 1
        THEN [k |-> "num",
              m |-> IF signed /\ s[1] = "-" THEN -mag ELSE mag,
              e |-> Len(fp)]
        ELSE NaN

(* Reads strings only: a number or a timestamp is taken as not a date. *)
ToDatetimeCellStringsOnly(c) ==
    IF c.k = "str" THEN ParseDate(c.s) ELSE NaT

(* pd.to_datetime(..., errors='coerce') on one cell.  A number is taken as *)
(* nanoseconds since 1970-01-01 (the numbers of the model are non-negative *)
(* integers far below one day of nanoseconds, so the day is 0).            *)
ToDatetimeCell(c) ==
    CASE c.k = "ts"  -> c
      [] c.k = "nat" -> NaT
      [] c.k = "nan" -> NaT
      [] c.k = "num" -> Ts(0, c.m)
      [] c.k = "str" -> ParseDate(c.s)

(* pd.to_numeric(..., errors='coerce') on one cell.  A timestamp is viewed  *)
(* as its 64-bit count of nanoseconds, kept here as the pair (day, ns); a  *)
(* missing timestamp becomes the smallest 64-bit integer, which is a       *)
(* number and not a missing one.                                           *)
ToNumericCell(c) ==
    CASE c.k = "num" -> c
      [] c.k = "nan" -> NaN
      [] c.k = "str" -> ParseNumber(c.s)
      [] c.k = "ts"  -> [k |-> "i8", day |-> c.day, ns |-> c.ns]
      [] c.k = "nat" -> [k |-> "i8min"]
      [] OTHER       -> c

IsNa(c) == c.k \in {"nan", "nat"}

----------------------------------------------------------------------------
(* DataFrames *)

DATE  == <<"d","a","t","e">>
YEAR  == <<"y","e","a","r">>
VALUE == <<"v","a","l","u","e">>

ColNames(df) == {df.cols[j].name : j \in 1..Len(df.cols)}

HasCol(df, name) == name \in ColNames(df)

(* Position of the (first) column called name. *)
ColPos(df, name) ==
    CHOOSE j \in 1..Len(df.cols) :
        /\ df.cols[j].name = name
        /\ \A i \in 1..(j - 1) : df.cols[i].name # name

(* df.rename(columns={old: new}) *)
Rename(df, old, new) ==
    [df EXCEPT !.cols = [j \in 1..Len(df.cols) |->
        IF df.cols[j].name = old
        THEN [df.cols[j] EXCEPT !.name = new]
        ELSE df.cols[j]]]

(* df[name] = f(df[name]) for a cell-wise f given as the new cells, one per *)
(* row, of dtype dt: the column keeps its position.                        *)
SetColumn(df, j, dt, cells) ==
    [cols |-> [df.cols EXCEPT ![j] = [name |-> df.cols[j].name, dtype |-> dt]],
     rows |-> [i \in 1..Len(df.rows) |->
                 [df.rows[i] EXCEPT !.cells = [@ EXCEPT ![j] = cells[i]]]]]

(* df[name] = series for a name that is no column yet: appended last.      *)
AddColumn(df, name, dt, cells) ==
    [cols |-> Append(df.cols, [name |-> name, dtype |-> dt]),
     rows |-> [i \in 1..Len(df.rows) |->
                 [df.rows[i] EXCEPT !.cells = Append(@, cells[i])]]]

Column(df, j) == [i \in 1..Len(df.rows) |-> df.rows[i].cells[j]]

(* The rows of df at the positions keep(i), in order. *)
RECURSIVE SelectRows(_, _)
SelectRows(rows, keep) ==
    IF rows = <<>> THEN <<>>
    ELSE LET n    == Len(rows)
             init == SelectRows(SubSeq(rows, 1, n - 1), keep)
         IN  IF keep[n] THEN Append(init, rows[n]) ELSE init

Filter(df, keep) == [df EXCEPT !.rows = SelectRows(df.rows, keep)]

----------------------------------------------------------------------------
(* standardize_and_clean, step by step *)

IsDateLike(c) ==
    \/ Contains(Lower(c), <<"d","a","t","e">>)
    \/ Contains(Lower(c), <<"d","a","y">>)
    \/ Contains(Lower(c), <<"t","i","m","e">>)

(* The loop without its break: the last date-like column wins. *)
ScanDateLikeLast(df, j) ==
    LET hits == {i \in j..Len(df.cols) : IsDateLike(df.cols[i].name)}
    IN  IF hits = {} THEN df
        ELSE Rename(df, df.cols[CHOOSE i \in hits : \A h \in hits : h <= i].name, DATE)

(* The for loop over df.columns, from column j on: the first column whose  *)
(* name is date-like is renamed and the loop stops.                        *)
RECURSIVE ScanDateLike(_, _)
ScanDateLike(df, j) ==
    IF j > Len(df.cols) THEN df
    ELSE IF IsDateLike(df.cols[j].name)
         THEN Rename(df, df.cols[j].name, DATE)
         ELSE ScanDateLike(df, j + 1)

GuessDateColumn(df) ==
    IF ~HasCol(df, DATE) THEN ScanDateLike(df, 1) ELSE df

(* df['year'].astype(str) on one cell: an int64 column prints integers, a  *)
(* float64 column prints them with ".0" and a missing value as "nan".      *)
AsStr(c, dtype) ==
    CASE c.k = "str" -> c.s
      [] c.k = "nan" -> <<"n","a","n">>
      [] c.k = "num" /\ dtype = "int64" -> IntToStr(c.m)
      [] c.k = "num" /\ dtype # "int64" /\ c.e = 0 -> IntToStr(c.m) \o <<".","0">>
      [] OTHER -> <<"?">>

(* df['year'].astype(str) + "-01-01", one string per row. *)
YearStrings(df) ==
    LET j == ColPos(df, YEAR)
    IN  [i \in 1..Len(df.rows) |->
            AsStr(df.rows[i].cells[j], df.cols[j].dtype) \o <<"-","0","1","-","0","1">>]

(* pd.to_datetime without errors='coerce' raises on a string it cannot     *)
(* read.                                                                   *)
YearRaises(df) ==
    /\ ~HasCol(df, DATE)
    /\ HasCol(df, YEAR)
    /\ \E i \in 1..Len(df.rows) : ParseDate(YearStrings(df)[i]) = NaT

EnsureDate(df, today) ==
    IF HasCol(df, DATE)
    THEN LET j == ColPos(df, DATE)
         IN  SetColumn(df, j, "datetime64",
                       [i \in 1..Len(df.rows) |-> ToDatetimeCell(df.rows[i].cells[j])])
    ELSE IF HasCol(df, YEAR)
         THEN AddColumn(df, DATE, "datetime64",
                        [i \in 1..Len(df.rows) |-> ParseDate(YearStrings(df)[i])])
         ELSE AddColumn(df, DATE, "datetime64",
                        [i \in 1..Len(df.rows) |-> Ts(today - df.rows[i].idx, 0)])

(* df.select_dtypes(include=[np.number]).columns.tolist() *)
NumericCols(df) ==
    {j \in 1..Len(df.cols) : df.cols[j].dtype \in {"int64", "float64"}}

Least(S) == CHOOSE j \in S : \A i \in S : j <= i

ResolveValue(df) ==
    IF HasCol(df, VALUE) THEN df
    ELSE IF NumericCols(df) # {}
         THEN Rename(df, df.cols[Least(NumericCols(df))].name, VALUE)
         ELSE Rename(df, df.cols[Len(df.cols)].name, VALUE)

(* dtype of pd.to_numeric's result *)
NumericDtype(col, dtype) ==
    IF dtype \in {"int64", "float64"} THEN dtype
    ELSE IF dtype = "datetime64" THEN "int64"
    ELSE IF \E i \in 1..Len(col) :
               \/ ToNumericCell(col[i]) = NaN
               \/ col[i].k = "str" /\ Contains(col[i].s, <<".">>)
         THEN "float64" ELSE "int64"

CoerceValue(df) ==
    LET j == ColPos(df, VALUE)
    IN  SetColumn(df, j, NumericDtype(Column(df, j), df.cols[j].dtype),
                  [i \in 1..Len(df.rows) |-> ToNumericCell(df.rows[i].cells[j])])

(* df.dropna(subset=['date', 'value']), for a frame that has both columns  *)
DropNa(df) ==
    LET d == ColPos(df, DATE)
        v == ColPos(df, VALUE)
    IN  Filter(df, [i \in 1..Len(df.rows) |->
                      ~IsNa(df.rows[i].cells[d]) /\ ~IsNa(df.rows[i].cells[v])])

(* The filter with < in place of <=. *)
RemoveFutureStrict(df, today) ==
    LET d == ColPos(df, DATE)
    IN  Filter(df, [i \in 1..Len(df.rows) |-> df.rows[i].cells[d].day < today])

(* df[df['date'].dt.date <= LOCAL_TODAY] *)
RemoveFuture(df, today) ==
    LET d == ColPos(df, DATE)
    IN  Filter(df, [i \in 1..Len(df.rows) |-> df.rows[i].cells[d].day <= today])

(* No deduplication. *)
DropDuplicatesNone(df) == df

(* df.drop_duplicates(): of rows equal in every column the first is kept   *)
DropDuplicates(df) ==
    Filter(df, [i \in 1..Len(df.rows) |->
                  \A j \in 1..(i - 1) : df.rows[j].cells # df.rows[i].cells])

TsLess(a, b) == a.day < b.day \/ (a.day = b.day /\ a.ns < b.ns)

(* No sort. *)
SortValuesNone(df, ties) == df

(* sort_values('date', ascending=False) *)
SortValuesDescending(df, ties) ==
    LET d == ColPos(df, DATE)
        n == Len(df.rows)
        Key(i) == df.rows[i].cells[d]
        Before(j, i) ==
            \/ TsLess(Key(i), Key(j))
            \/ /\ Key(j) = Key(i)
               /\ IF ties = "input_order" THEN j < i ELSE j > i
        Rank(i) == Cardinality({j \in 1..n : Before(j, i)})
    IN  [df EXCEPT !.rows =
            [p \in 1..n |-> df.rows[CHOOSE i \in 1..n : Rank(i) = p - 1]]]

(* df.sort_values('date'): kind defaults to 'quicksort', which is not a    *)
(* stable sort, so the order of rows with equal dates is whatever the      *)
(* installed sort routine gives: ties stands for that routine.             *)
SortValues(df, ties) ==
    LET d == ColPos(df, DATE)
        n == Len(df.rows)
        Key(i) == df.rows[i].cells[d]
        Before(j, i) ==
            \/ TsLess(Key(j), Key(i))
            \/ /\ Key(j) = Key(i)
               /\ IF ties = "input_order" THEN j < i ELSE j > i
        Rank(i) == Cardinality({j \in 1..n : Before(j, i)})
    IN  [df EXCEPT !.rows =
            [p \in 1..n |-> df.rows[CHOOSE i \in 1..n : Rank(i) = p - 1]]]

(* df.reset_index(drop=True) *)
ResetIndex(df) ==
    [df EXCEPT !.rows = [p \in 1..Len(df.rows) |-> [df.rows[p] EXCEPT !.idx = p - 1]]]

EmptyFrame == [cols |-> <<>>, rows |-> <<>>]

(* Which column the dates come from, given the frame g after the renaming  *)
(* loop: kind "column" (pos: its position), "year" (pos: the position of   *)
(* the year column) or "fallback".                                         *)
DateSourceOf(g) ==
    IF HasCol(g, DATE) THEN [kind |-> "column", pos |-> ColPos(g, DATE)]
    ELSE IF HasCol(g, YEAR) THEN [kind |-> "year", pos |-> ColPos(g, YEAR)]
    ELSE [kind |-> "fallback", pos |-> 0]

(* The whole function.  Besides the returned frame the result records      *)
(* today: the value of LOCAL_TODAY the call read; order: for each returned *)
(* row the index label it had in df (reset_index discards it); dateFrom:   *)
(* where the dates came from; valueFrom: the position, once the date       *)
(* column is in place, of the column that is called value from then on.    *)
standardize_and_clean(df, today, ties) ==
    LET g == GuessDateColumn(df)
    IN  IF YearRaises(g)
        THEN [status |-> "ValueError", today |-> today, frame |-> EmptyFrame,
              order |-> <<>>,
              dateFrom |-> DateSourceOf(g), valueFrom |-> 0]
        ELSE LET v == ResolveValue(EnsureDate(g, today))
                 c == CoerceValue(v)
             IN  IF ~HasCol(c, DATE)
                 THEN [status |-> "KeyError", today |-> today, frame |-> EmptyFrame,
                       order |-> <<>>,
                       dateFrom |-> DateSourceOf(g), valueFrom |-> ColPos(v, VALUE)]
                 ELSE LET s == SortValues(
                                   DropDuplicates(RemoveFuture(DropNa(c), today)), ties)
                      IN  [status |-> "ok",
                           today |-> today,
                           frame |-> ResetIndex(s),
                           order |-> [p \in 1..Len(s.rows) |-> s.rows[p].idx],
                           dateFrom |-> DateSourceOf(g),
                           valueFrom |-> ColPos(v, VALUE)]

----------------------------------------------------------------------------
(* The caller's tables *)

Names ==
    { DATE, <<"D","a","y">>, <<"T","I","M","E">>, YEAR, VALUE, <<"x">> }

NumberCells == { NaN, Num(2010), Num(2030) }

TextCells ==
    { Txt(<<"a","b","c">>),
      Txt(<<"9",".","0">>),
      Txt(<<"2","0","2","4","-","0","5","-","3","1">>),
      Txt(<<"2","0","2","4","-","0","6","-","0","1">>),
      Txt(<<"2","0","2","4","-","0","6","-","0","2">>) }

(* The date the clock shows when the script first runs: 2024-06-01. *)
StartDay == DaysFromCivil(2024, 6, 1)

Headers(nc) ==
    {h \in [1..nc -> Names] : \A i, j \in 1..nc : i # j => h[i] # h[j]}

RowsOf(kinds, nc, nr) ==
    [1..nr -> {c \in [1..nc -> NumberCells \cup TextCells] :
                  \A j \in 1..nc :
                      c[j] \in (IF kinds[j] = "number" THEN NumberCells ELSE TextCells)}]

(* A frame as pandas builds it from records: a column of numbers is int64, *)
(* float64 once a value is missing; a column of strings is object; the     *)
(* index is 0, 1, 2, ...                                                   *)
MakeFrame(h, kinds, rs) ==
    [cols |-> [j \in 1..Len(h) |->
                 [name  |-> h[j],
                  dtype |-> IF kinds[j] = "text" THEN "object"
                            ELSE IF \E i \in 1..Len(rs) : rs[i][j] = NaN
                                 THEN "float64" ELSE "int64"]],
     rows |-> [i \in 1..Len(rs) |-> [idx |-> i - 1, cells |-> rs[i]]]]

(* raw is one of the tables of at most MaxCols columns, MaxRows rows and   *)
(* MaxCells cells.                                                         *)
IsRawTable(t) ==
    \E nc \in 0..MaxCols, nr \in 0..MaxRows :
        /\ nc * nr <= MaxCells
        /\ \E h \in Headers(nc), kinds \in [1..nc -> {"number", "text"}] :
               \E rs \in RowsOf(kinds, nc, nr) : t = MakeFrame(h, kinds, rs)

----------------------------------------------------------------------------
(* The program *)

NoResult ==
    [status |-> "none", today |-> 0, frame |-> EmptyFrame, order |-> <<>>,
     dateFrom |-> [kind |-> "none", pos |-> 0], valueFrom |-> 0]

Init ==
    /\ clock = StartDay
    /\ LOCAL_TODAY = clock
    /\ IsRawTable(raw)
    /\ argsortTies \in {"input_order", "reverse_order"}
    /\ result = NoResult

(* A day passes. *)
Tick ==
    /\ clock < StartDay + MaxTicks
    /\ clock' = clock + 1
    /\ UNCHANGED <<LOCAL_TODAY, raw, argsortTies, result>>

(* The script is run again (every Streamlit rerun executes the module top  *)
(* to bottom): LOCAL_TODAY = datetime.now().date()                         *)
RunScript ==
    /\ LOCAL_TODAY' = clock
    /\ UNCHANGED <<clock, raw, argsortTies, result>>

(* standardize_and_clean(raw): works on df.copy(), so raw is left alone.   *)
Call ==
    /\ result' = standardize_and_clean(raw, LOCAL_TODAY, argsortTies)
    /\ UNCHANGED <<clock, LOCAL_TODAY, raw, argsortTies>>

Next == Tick \/ RunScript \/ Call

Spec == Init /\ [][Next]_vars

(* The call alone, on the day the script first ran. *)
NextCall == Call

SpecCall == Init /\ [][NextCall]_vars

----------------------------------------------------------------------------
(* Vocabulary of the properties *)

Returned == result.status = "ok"

Out == result.frame

NumOut == Len(Out.rows)

OutDate(p) == Out.rows[p].cells[ColPos(Out, DATE)]

OutValue(p) == Out.rows[p].cells[ColPos(Out, VALUE)]

(* The frame the call had after dropna (line 298), before the future-date  *)
(* filter; only used where the call returned.                              *)
AfterDropNa ==
    DropNa(CoerceValue(ResolveValue(EnsureDate(GuessDateColumn(raw), result.today))))

DateOf(df, i) == df.rows[i].cells[ColPos(df, DATE)]

DateLikeCols(df) == {j \in 1..Len(df.cols) : IsDateLike(df.cols[j].name)}

----------------------------------------------------------------------------
(* C1: every returned row has a date on or before today (the LOCAL_TODAY   *)
(* the call read), and a row that survived dropna and is dated exactly     *)
(* today is still in the returned frame, i.e. the future-date filter keeps *)
(* it.                                                                     *)
C1_NoFutureRows ==
    Returned =>
        LET a == AfterDropNa
        IN  /\ \A p \in 1..NumOut : OutDate(p).day <= result.today
            /\ \A i \in 1..Len(a.rows) :
                   DateOf(a, i).day = result.today
                       => \E p \in 1..NumOut : Out.rows[p].cells = a.rows[i].cells

(* A call that returned, on a table holding both a row dated after today   *)
(* (removed) and a row dated today (kept).                                 *)
C1_Witness ==
    /\ Returned
    /\ LET a == AfterDropNa
       IN  /\ \E i \in 1..Len(a.rows) : DateOf(a, i).day > result.today
           /\ \E i \in 1..Len(a.rows) : DateOf(a, i).day = result.today
    /\ \E p \in 1..NumOut : OutDate(p).day = result.today

----------------------------------------------------------------------------
----------------------------------------------------------------------------
(* C3: no two returned rows are equal in every column, and each row that   *)
(* passed the filters is returned exactly once, however many rows equal to *)
(* it the input held.                                                      *)
C3_NoDuplicates ==
    Returned =>
        LET kept == RemoveFuture(AfterDropNa, result.today)
        IN  /\ \A p, q \in 1..NumOut : p # q => Out.rows[p].cells # Out.rows[q].cells
            /\ \A i \in 1..Len(kept.rows) :
                   Cardinality({p \in 1..NumOut : Out.rows[p].cells = kept.rows[i].cells}) = 1

(* A call that returned, on a table with two rows that are equal in every  *)
(* column after coercion and pass the filters.                             *)
C3_Witness ==
    /\ Returned
    /\ LET kept == RemoveFuture(AfterDropNa, result.today)
       IN  \E i, j \in 1..Len(kept.rows) : i # j /\ kept.rows[i].cells = kept.rows[j].cells
    /\ NumOut = 1

----------------------------------------------------------------------------
(* C4: the call never raises: whatever the table, it returns a frame.      *)
C4_Total == result.status \in {"none", "ok"}

----------------------------------------------------------------------------
(* The returned frame standardized once more, with the same today. *)
Again == standardize_and_clean(Out, result.today, argsortTies)

----------------------------------------------------------------------------
(* The table as C6 and C7 read it. *)

(* C7's precedence: the column called value, else the first column whose   *)
(* cells all read as numbers, else the last column (0: the table has no    *)
(* column).                                                                *)
AllNumbers(df, j) ==
    \A i \in 1..Len(df.rows) : ToNumericCell(df.rows[i].cells[j]).k = "num"

StatedValueColumn(df) ==
    IF HasCol(df, VALUE) THEN ColPos(df, VALUE)
    ELSE IF \E j \in 1..Len(df.cols) : AllNumbers(df, j)
         THEN Least({j \in 1..Len(df.cols) : AllNumbers(df, j)})
         ELSE Len(df.cols)

(* The date of row i: its date cell read as a date, January 1st of its     *)
(* year, or today minus its row number.                                    *)
RowDate(df, i, today) ==
    LET src == DateSourceOf(GuessDateColumn(df))
        c   == df.rows[i].cells[src.pos]
    IN  CASE src.kind = "column" -> ToDatetimeCell(c)
          [] src.kind = "year" ->
                LET y == ToNumericCell(c)
                IN  IF y.k = "num" /\ y.e = 0 /\ y.m >= 1
                    THEN Ts(DaysFromCivil(y.m, 1, 1), 0) ELSE NaT
          [] OTHER -> Ts(today - df.rows[i].idx, 0)

(* The value of row i, read from column j. *)
RowValue(df, i, j) == ToNumericCell(df.rows[i].cells[j])

(* Row i has a date on or before today and, in column j, a value. *)
RowValid(df, i, today, j) ==
    /\ RowDate(df, i, today).k = "ts"
    /\ RowDate(df, i, today).day <= today
    /\ RowValue(df, i, j).k = "num"

(* The table holds a row that is valid as the specification reads it: the  *)
(* value column is the one C7 names, and is not the column of the dates.   *)
HasStatedValidRow ==
    /\ StatedValueColumn(raw) # 0
    /\ StatedValueColumn(raw) # DateSourceOf(GuessDateColumn(raw)).pos
    /\ \E i \in 1..Len(raw.rows) :
           RowValid(raw, i, result.today, StatedValueColumn(raw))

(* C6: a call on a table that holds a valid row (its date and value cells  *)
(* parse and its date is not after today) returns, whatever the other rows *)
(* hold; and the (date, value) pairs of the returned rows are exactly      *)
(* those of the valid rows.                                                *)
C6_ExactlyValidRows ==
    result.status # "none" =>
        /\ HasStatedValidRow => Returned
        /\ Returned =>
               {<<OutDate(p), OutValue(p)>> : p \in 1..NumOut}
                 = {<<RowDate(raw, i, result.today), RowValue(raw, i, result.valueFrom)>> :
                       i \in {k \in 1..Len(raw.rows) :
                                 RowValid(raw, k, result.today, result.valueFrom)}}

----------------------------------------------------------------------------
(* C7: whenever the call gets as far as choosing the value column of a     *)
(* table that has columns and rows, the column it uses is the one called   *)
(* value, else the first column whose cells all read as numbers, else the  *)
(* last column of the table.                                               *)
C7_ValuePrecedence ==
    (result.status \in {"ok", "KeyError"} /\ Len(raw.cols) >= 1 /\ Len(raw.rows) >= 1)
        => result.valueFrom = StatedValueColumn(raw)

----------------------------------------------------------------------------
----------------------------------------------------------------------------
(* C9: the dates come from the column called date if there is one;         *)
(* otherwise from the first column whose name contains date, day or time   *)
(* (in any case), which is renamed to date; otherwise, if there is a year  *)
(* column, from January 1st of each row's year; otherwise from the         *)
(* fallback sequence.  The year column is not used when a date or          *)
(* date-like column exists.                                                *)
C9_DatePrecedence ==
    result.status # "none" =>
        /\ HasCol(raw, DATE)
              => result.dateFrom = [kind |-> "column", pos |-> ColPos(raw, DATE)]
        /\ (~HasCol(raw, DATE) /\ DateLikeCols(raw) # {})
              => result.dateFrom = [kind |-> "column", pos |-> Least(DateLikeCols(raw))]
        /\ (~HasCol(raw, DATE) /\ DateLikeCols(raw) = {} /\ HasCol(raw, YEAR))
              => result.dateFrom = [kind |-> "year", pos |-> ColPos(raw, YEAR)]
        /\ (~HasCol(raw, DATE) /\ DateLikeCols(raw) = {} /\ ~HasCol(raw, YEAR))
              => result.dateFrom.kind = "fallback"
        /\ (Returned /\ result.dateFrom.kind = "column")
              => /\ Out.cols[result.dateFrom.pos].name = DATE
                 /\ \A p \in 1..NumOut :
                        OutDate(p) = ToDatetimeCell(
                            raw.rows[result.order[p] + 1].cells[result.dateFrom.pos])
        /\ (Returned /\ result.dateFrom.kind = "year")
              => \A p \in 1..NumOut :
                     OutDate(p) = Ts(DaysFromCivil(
                         raw.rows[result.order[p] + 1].cells[result.dateFrom.pos].m, 1, 1), 0)

(* A call that returned rows of a table with two date-like columns and no  *)
(* column called date.                                                     *)
C9_Witness ==
    /\ Returned
    /\ NumOut >= 1
    /\ ~HasCol(raw, DATE)
    /\ Cardinality(DateLikeCols(raw)) >= 2

----------------------------------------------------------------------------
(* C10: two calls on the same table return the same frame, whatever the    *)
(* system date was when the script or the call ran.                        *)
C10_SameTableSameFrame ==
    [][(result.status # "none" /\ result'.status # "none" /\ raw' = raw)
          => (result'.status = result.status /\ result'.frame = result.frame)]_vars

====
